---- MODULE Spec2Model ----
(***************************************************************************)
(* Model of controllers/shadows.py: the Shadows trial controller.          *)
(*                                                                         *)
(* Numbers are fixed-point integers:                                       *)
(*   lengths and coordinates   in units of 0.005  (0.5 -> 100, 0.01 -> 2)  *)
(*   mass                      in units of 0.1    (1 -> 10, 4 -> 40)       *)
(*   force magnitudes          in units of 0.01   (0.03 -> 3, 10.4 -> 1040)*)
(*   sun intensity             in units of 0.01   (0.8 -> 80)              *)
(* Distances are compared through their squares, which is exact:           *)
(*   d <= 0.01  <=>  d^2 <= 2^2   and   d0 >= d1  <=>  d0^2 >= d1^2.       *)
(***************************************************************************)
EXTENDS Integers, Sequences, FiniteSets, TLC

VARIABLES pc, _skyboxes, _p0, _p1, commands, resp, result, done_before

vars == <<pc, _skyboxes, _p0, _p1, commands, resp, result, done_before>>

(***************************************************************************)
(* Bounds of the model.                                                    *)
(***************************************************************************)
\* random.uniform(a, b) is sampled at a + (b - a) * k / UDen, k = 0..UDen
UDen == 3
\* most output-data items in one response batch (before the frame item)
MaxResp == 2

(***************************************************************************)
(* Vectors ({"x":, "y":, "z":} dictionaries).                              *)
(***************************************************************************)
Vec(x, y, z) == [x |-> x, y |-> y, z |-> z]

VECTOR3_ZERO == Vec(0, 0, 0)

\* the empty dictionary {} that __init__ stores in _p0 and _p1
EmptyDict == [empty |-> TRUE]

Add(a, b) == Vec(a.x + b.x, a.y + b.y, a.z + b.z)

Sq(n) == n * n

\* TDWUtils.get_distance(a, b), squared
DistSq(a, b) == Sq(a.x - b.x) + Sq(a.y - b.y) + Sq(a.z - b.z)

(***************************************************************************)
(* _Sector                                                                 *)
(***************************************************************************)
RADIUS == 100

_Sector(c_0, c_1) == [c_0 |-> c_0, c_1 |-> c_1]

SECTORS ==
  << _Sector(Vec(100, 0, 0),     Vec(-100, 0, 0)),
     _Sector(Vec(0, 0, 600),     Vec(-240, 0, 740)),
     _Sector(Vec(0, 0, -600),    Vec(-240, 0, -740)),
     _Sector(Vec(430, 0, -520),  Vec(800, 0, -600)),
     _Sector(Vec(430, 0, 520),   Vec(800, 0, 600)),
     _Sector(Vec(-430, 0, 520),  Vec(-800, 0, 600)),
     _Sector(Vec(-430, 0, -520), Vec(-800, 0, -600)) >>

\* offsets (dx, dz) the point sampler proposes, before the radius test
Offsets == { <<0, 0>>, <<0 - 99, 0>>, <<99, 0>>, <<99, 99>> }

\* TDWUtils.get_random_point_in_circle(center, radius): r = radius * sqrt(u)
\* with u in [0, 1), at any angle; y is the centre's y.
get_random_point_in_circle(center, radius) ==
  { Vec(center.x + dx, center.y, center.z + dz) :
      <<dx, dz>> \in { o \in Offsets : Sq(o[1]) + Sq(o[2]) < Sq(radius) } }

get_p_0(sector) == get_random_point_in_circle(sector.c_0, RADIUS)

\* variant: the second sampler reads the first centre
get_p_1_first_center(sector) == get_random_point_in_circle(sector.c_0, RADIUS)

get_p_1(sector) == get_random_point_in_circle(sector.c_1, RADIUS)

(***************************************************************************)
(* Random draws.                                                           *)
(***************************************************************************)
\* random.uniform(a, b) = a + (b - a) * random()
Uniform(a, b) == { a + ((b - a) * k) \div UDen : k \in 0..UDen }

\* random.choice(seq) raises IndexError on an empty sequence
ChoiceRaises(S) == S = {}

(***************************************************************************)
(* Shadows: class constants                                                *)
(***************************************************************************)
_BALL_SCALE == 100

_ball_id == 0

\* the first entries of the literal list of material names
_BALL_MATERIALS == {"aluminium_brushed", "aluminium_clean"}

\* sun_intensity threshold of the skybox filter
SUN_INTENSITY_MIN == 80

\* records an HDRISkyboxLibrarian can hold: name and sun_intensity
SkyboxRecords == { [name |-> "dim_sky", sun_intensity |-> 79],
                   [name |-> "sun_sky", sun_intensity |-> 80] }

\* [r.name for r in skybox_lib.records if r.sun_intensity >= 0.8]
skybox_filter(records) ==
  { r.name : r \in { q \in records : q.sun_intensity >= SUN_INTENSITY_MIN } }

(***************************************************************************)
(* get_trial_initialization_commands: the pieces of the returned list.     *)
(* A command keeps its type, its id and the fields computed from the plan  *)
(* (start, target, mass, the two impulses, material, skybox, camera). The  *)
(* frictions, bounciness, spin angle, skybox angle, camera margin and      *)
(* height are independent uniform draws that nothing else reads.           *)
(***************************************************************************)
\* commands.extend(self.add_physics_object(...)): the instructions that
\* instantiate the body, kept as one entry carrying the call's arguments
add_physics_object(position, rotation, o_id, mass) ==
  << [type |-> "add_physics_object", id |-> o_id, position |-> position,
      rotation |-> rotation, mass |-> mass] >>

\* variant: the lower launch bound is not scaled by the mass
launch_low_unscaled(mass) == 520

\* bounds of the launch impulse for a mass
launch_low(mass) == 52 * mass

launch_high(mass) == 80 * mass

\* variant: the launch impulse is applied before the ball is aimed
ball_commands_launch_first(p1, settle, launch) ==
  << [type |-> "scale_object", id |-> _ball_id,
      scale_factor |-> Vec(_BALL_SCALE, _BALL_SCALE, _BALL_SCALE)],
     [type |-> "rotate_object_by", id |-> _ball_id, axis |-> "pitch",
      is_world |-> TRUE],
     [type |-> "apply_force_magnitude_to_object", id |-> _ball_id,
      magnitude |-> settle],
     [type |-> "apply_force_magnitude_to_object", id |-> _ball_id,
      magnitude |-> launch],
     [type |-> "object_look_at_position", id |-> _ball_id, position |-> p1] >>

\* "Scale the ball and apply a force and a spin."
ball_commands(p1, settle, launch) ==
  << [type |-> "scale_object", id |-> _ball_id,
      scale_factor |-> Vec(_BALL_SCALE, _BALL_SCALE, _BALL_SCALE)],
     [type |-> "rotate_object_by", id |-> _ball_id, axis |-> "pitch",
      is_world |-> TRUE],
     [type |-> "apply_force_magnitude_to_object", id |-> _ball_id,
      magnitude |-> settle],
     [type |-> "object_look_at_position", id |-> _ball_id, position |-> p1],
     [type |-> "apply_force_magnitude_to_object", id |-> _ball_id,
      magnitude |-> launch] >>

\* TDWUtils.set_visual_material(...)
set_visual_material(o_id, material) ==
  << [type |-> "set_visual_material", id |-> o_id, material_name |-> material] >>

\* get_add_hdri_skybox(...) and the skybox rotation
skybox_commands(skybox) ==
  << [type |-> "add_hdri_skybox", name |-> skybox],
     [type |-> "rotate_hdri_skybox_by"] >>

\* p_med, in half units (twice the midpoint's coordinates), on the ground plane
p_med2(p0, p1) == Vec(p0.x + p1.x, 0, p0.z + p1.z)

p_cen == Vec(0, 0, 0)

\* np.linalg.norm(p_cen - p_med) = 0 ?
norm_is_zero(v) == Sq(v.x) + Sq(v.y) + Sq(v.z) = 0

\* a_pos = p_med + (p_cen - p_med) / |p_cen - p_med| * (d0 + margin); a_pos[1] = height.
\* numpy divides 0 by 0 into nan without raising: x and z are then nan.
\* A finite a_pos lies on the ray from p_med along dir.
a_pos(p0, p1) ==
  LET dir == Vec(p_cen.x - p_med2(p0, p1).x, 0, p_cen.z - p_med2(p0, p1).z)
  IN  [nan |-> norm_is_zero(dir), base2 |-> p_med2(p0, p1), dir |-> dir]

camera_commands(p0, p1) ==
  << [type |-> "teleport_avatar_to", position |-> a_pos(p0, p1)],
     [type |-> "look_at_position", position2 |-> p_med2(p0, p1)] >>

(***************************************************************************)
(* is_done                                                                 *)
(***************************************************************************)
ARRIVE_EPS == 2

Tran(p) == [id |-> "tran", position |-> p]

Other == [id |-> "rigi"]

\* the last item of every response batch: the frame count
FrameItem == [id |-> "fram"]

\* variant: arrival uses < instead of <=
stop_condition_strict(d0sq, d1sq, d2sq) == d2sq < Sq(ARRIVE_EPS) \/ d0sq >= d1sq

\* d2 <= 0.01 or d0 >= d1, on squared distances
stop_condition(d0sq, d1sq, d2sq) == d2sq <= Sq(ARRIVE_EPS) \/ d0sq >= d1sq

\* variant: a batch without a "tran" item ends the trial
no_tran_result_true == TRUE

\* the value returned when the loop ends without a "tran" item
no_tran_result == FALSE

\* index in rs of the item the loop returns on (0: none)
RECURSIVE scan_from(_, _)
scan_from(rs, i) ==
  IF i > Len(rs) THEN 0
  ELSE IF rs[i].id = "tran" THEN i
  ELSE scan_from(rs, i + 1)

\* variant: the loop keeps going and the last "tran" item decides
RECURSIVE scan_back(_, _)
scan_back(rs, i) ==
  IF i < 1 THEN 0
  ELSE IF rs[i].id = "tran" THEN i
  ELSE scan_back(rs, i - 1)

returning_item_last(rs) == scan_back(rs, Len(rs))

returning_item(rs) == scan_from(rs, 1)

\* variant: is_done latches, staying true once it has returned true in a trial
is_done_latching(rsp, p0, p1) ==
  LET rs == SubSeq(rsp, 1, Len(rsp) - 1)
      i  == returning_item(rs)
  IN  \/ result
      \/ IF i = 0 THEN no_tran_result
         ELSE stop_condition(DistSq(rs[i].position, p0), DistSq(p0, p1),
                             DistSq(rs[i].position, p1))

is_done(rsp, p0, p1) ==
  LET rs == SubSeq(rsp, 1, Len(rsp) - 1)
      i  == returning_item(rs)
  IN  IF i = 0 THEN no_tran_result
      ELSE stop_condition(DistSq(rs[i].position, p0), DistSq(p0, p1),
                          DistSq(rs[i].position, p1))

(***************************************************************************)
(* Response batches the backend can deliver in a trial                     *)
(***************************************************************************)
\* ball positions reported in a trial planned from p0 to p1
BallPositions(p0, p1) ==
  { p0, p1, Add(p1, Vec(ARRIVE_EPS, 0, 0)), VECTOR3_ZERO }

Items(p0, p1) == { Tran(p) : p \in BallPositions(p0, p1) } \cup {Other}

RECURSIVE SeqsUpTo(_, _)
SeqsUpTo(S, n) ==
  IF n = 0 THEN {<<>>}
  ELSE LET shorter == SeqsUpTo(S, n - 1)
       IN  shorter \cup { Append(s, e) : s \in shorter, e \in S }

Batches(p0, p1) == { s \o <<FrameItem>> : s \in SeqsUpTo(Items(p0, p1), MaxResp) }

(***************************************************************************)
(* State machine                                                           *)
(***************************************************************************)
Init ==
  /\ pc = "new"
  /\ _skyboxes = {}
  /\ _p0 = EmptyDict
  /\ _p1 = EmptyDict
  /\ commands = <<>>
  /\ resp = <<>>
  /\ result = FALSE
  /\ done_before = FALSE

\* Shadows.__init__
Construct ==
  /\ pc = "new"
  /\ \E records \in SUBSET SkyboxRecords :
       _skyboxes' = skybox_filter(records)
  /\ _p0' = EmptyDict
  /\ _p1' = EmptyDict
  /\ pc' = "ready"
  /\ UNCHANGED <<commands, resp, result, done_before>>

\* get_trial_initialization_commands, returning its list
PlanTrial ==
  /\ pc = "ready"
  /\ ~ChoiceRaises(_skyboxes)
  /\ \E i \in 1..Len(SECTORS), flip \in BOOLEAN :
       \E a \in get_p_0(SECTORS[i]), b \in get_p_1(SECTORS[i]) :
         LET p0 == IF flip THEN a ELSE b
             p1 == IF flip THEN b ELSE a
         IN
         \E mass \in Uniform(10, 40), settle \in Uniform(1, 3) :
           \E launch \in Uniform(launch_low(mass), launch_high(mass)),
              material \in _BALL_MATERIALS, skybox \in _skyboxes :
             /\ _p0' = p0
             /\ _p1' = p1
             /\ commands' = add_physics_object(p0, VECTOR3_ZERO, _ball_id, mass)
                              \o ball_commands(p1, settle, launch)
                              \o set_visual_material(_ball_id, material)
                              \o skybox_commands(skybox)
                              \o camera_commands(p0, p1)
  /\ pc' = "planned"
  /\ resp' = <<>>
  /\ result' = FALSE
  /\ done_before' = FALSE
  /\ UNCHANGED _skyboxes

\* get_trial_initialization_commands, raising IndexError at the skybox choice:
\* _p0 and _p1 are already assigned, no list is returned
PlanTrialRaises ==
  /\ pc = "ready"
  /\ ChoiceRaises(_skyboxes)
  /\ \E i \in 1..Len(SECTORS), flip \in BOOLEAN :
       \E a \in get_p_0(SECTORS[i]), b \in get_p_1(SECTORS[i]) :
         /\ _p0' = IF flip THEN a ELSE b
         /\ _p1' = IF flip THEN b ELSE a
  /\ pc' = "raised"
  /\ commands' = <<>>
  /\ UNCHANGED <<_skyboxes, resp, result, done_before>>

\* the caller sends the returned list to the backend
Communicate ==
  /\ pc = "planned"
  /\ pc' = "running"
  /\ commands' = <<>>
  /\ UNCHANGED <<_skyboxes, _p0, _p1, resp, result, done_before>>

\* one frame: the backend's response batch arrives and is_done is evaluated
Frame ==
  /\ pc = "running"
  /\ \E r \in Batches(_p0, _p1) :
       /\ resp' = r
       /\ result' = is_done(r, _p0, _p1)
  /\ done_before' = (done_before \/ (resp # <<>> /\ result))
  /\ UNCHANGED <<pc, _skyboxes, _p0, _p1, commands>>

\* the caller stops polling once a frame was done; the next trial can be planned
EndTrial ==
  /\ pc = "running"
  /\ result
  /\ pc' = "ready"
  /\ resp' = <<>>
  /\ result' = FALSE
  /\ done_before' = FALSE
  /\ UNCHANGED <<_skyboxes, _p0, _p1, commands>>

Next ==
  \/ Construct
  \/ PlanTrial
  \/ PlanTrialRaises
  \/ Communicate
  \/ Frame
  \/ EndTrial

Spec == Init /\ [][Next]_vars

(***************************************************************************)
(* Properties                                                              *)
(***************************************************************************)
IsTran(item) == item.id = "tran"

\* the position readings of a response batch, in order
Readings(rsp) == SelectSeq(rsp, IsTran)

ReadingSet(rsp) == { Readings(rsp)[k].position : k \in 1..Len(Readings(rsp)) }

Arrived(p) == DistSq(p, _p1) <= 4

Overshot(p) == DistSq(p, _p0) >= DistSq(_p0, _p1)

InFrame == pc = "running" /\ resp # <<>>

Planned == pc \in {"planned", "running"}

\* C1: on a frame whose readings report one ball position p, is_done is true
\* exactly when distance(p, target) <= 0.01 or distance(p, start) >=
\* distance(start, target); it is true at p = target, and for
\* start = (0.5,0,0), target = (-0.5,0,0) true at (-0.49,0,0), false at (0,0,0).
C1_DoneIffArrivedOrOvershot ==
  InFrame =>
    \A p \in ReadingSet(resp) :
      ReadingSet(resp) = {p} =>
        /\ result <=> (Arrived(p) \/ Overshot(p))
        /\ p = _p1 => result
        /\ (_p0 = Vec(100, 0, 0) /\ _p1 = Vec(0 - 100, 0, 0)) =>
             /\ p = Vec(0 - 98, 0, 0) => result
             /\ p = Vec(0, 0, 0) => ~result

C1_Witness ==
  /\ InFrame
  /\ _p0 = Vec(100, 0, 0)
  /\ _p1 = Vec(0 - 100, 0, 0)
  /\ resp = <<Tran(Vec(0 - 98, 0, 0)), FrameItem>>
  /\ result

\* C2 as stated: once is_done has returned true on a frame of a trial, it
\* returns true on every later frame of that trial.
C2_DoneNeverReverts == (InFrame /\ done_before) => result

\* C2 amended: is_done keeps no memory of earlier frames. After it has returned
\* true, a later frame of the trial is done exactly when its own reading is
\* within 0.01 of the target or at least as far from start as the target,
\* and is not done when it carries no reading.
C2_DoneDecidedPerFrame ==
  (InFrame /\ done_before) =>
    /\ ReadingSet(resp) = {} => ~result
    /\ \A p \in ReadingSet(resp) :
         ReadingSet(resp) = {p} => (result <=> (Arrived(p) \/ Overshot(p)))

C2_Witness ==
  /\ InFrame
  /\ done_before
  /\ ReadingSet(resp) = {VECTOR3_ZERO}
  /\ ~result

\* C3 as stated: with several readings in one batch, the last one decides.
C3_LastReadingDecides ==
  (InFrame /\ Len(Readings(resp)) > 1) =>
    LET p == Readings(resp)[Len(Readings(resp))].position
    IN  result <=> (Arrived(p) \/ Overshot(p))

\* C3 amended: with several readings in one batch, the first one decides;
\* later readings of the batch do not influence the result.
C3_FirstReadingDecides ==
  (InFrame /\ Len(Readings(resp)) > 1) =>
    LET p == Readings(resp)[1].position
    IN  result <=> (Arrived(p) \/ Overshot(p))

C3_Witness ==
  /\ InFrame
  /\ Len(Readings(resp)) = 2
  /\ Readings(resp)[1].position = _p1
  /\ ~(Arrived(Readings(resp)[2].position) \/ Overshot(Readings(resp)[2].position))
  /\ result

\* C4: a frame whose batch carries no position reading returns false, raises
\* nothing and leaves start and target as they were.
C4_NoReadingStaysRunning ==
  [][(pc = "running" /\ resp' # <<>> /\ Readings(resp') = <<>>) =>
       (~result' /\ pc' = "running" /\ _p0' = _p0 /\ _p1' = _p1)]_vars

C4_Witness ==
  /\ InFrame
  /\ resp = <<Other, FrameItem>>
  /\ ~result

InSubSector(p, c) == p.y = c.y /\ DistSq(p, c) < Sq(RADIUS)

InSector(p, i) == InSubSector(p, SECTORS[i].c_0) \/ InSubSector(p, SECTORS[i].c_1)

\* C5: once a trial was planned, start and target lie in the two different
\* sub-regions of one sector, in either order, and in no other sector.
C5_StartTargetSameSector ==
  (pc \in {"planned", "running", "raised"} \/ (pc = "ready" /\ "x" \in DOMAIN _p0)) =>
    \E i \in 1..Len(SECTORS) :
      /\ \/ InSubSector(_p0, SECTORS[i].c_0) /\ InSubSector(_p1, SECTORS[i].c_1)
         \/ InSubSector(_p0, SECTORS[i].c_1) /\ InSubSector(_p1, SECTORS[i].c_0)
      /\ ~(InSubSector(_p0, SECTORS[i].c_0) /\ InSubSector(_p1, SECTORS[i].c_0))
      /\ ~(InSubSector(_p0, SECTORS[i].c_1) /\ InSubSector(_p1, SECTORS[i].c_1))
      /\ \A j \in 1..Len(SECTORS) :
           j # i => ~InSector(_p0, j) /\ ~InSector(_p1, j)

C5_Witness ==
  /\ pc = "planned"
  /\ InSubSector(_p0, SECTORS[4].c_1)
  /\ InSubSector(_p1, SECTORS[4].c_0)
  /\ _p0 # SECTORS[4].c_1

\* C6: the camera position of every planned trial is a defined position, also
\* when the midpoint of start and target is the origin.
C6_CameraDefined ==
  pc = "planned" =>
    \A k \in 1..Len(commands) :
      commands[k].type = "teleport_avatar_to" => ~commands[k].position.nan

IsBallMotion(c) ==
  c.type \in {"add_physics_object", "rotate_object_by",
              "apply_force_magnitude_to_object", "object_look_at_position"}

BallMotion == SelectSeq(commands, IsBallMotion)

\* C7: the returned list holds, for the ball and in this order: instantiate at
\* start, pitch rotation, settle impulse in [0.01, 0.03], orient toward the
\* target, launch impulse; nothing moves the ball between orient and launch.
C7_AimThenLaunch ==
  pc = "planned" =>
    /\ Len(BallMotion) = 5
    /\ \A k \in 1..5 : BallMotion[k].id = _ball_id
    /\ BallMotion[1].type = "add_physics_object"
    /\ BallMotion[1].position = _p0
    /\ BallMotion[2].type = "rotate_object_by"
    /\ BallMotion[2].axis = "pitch"
    /\ BallMotion[3].type = "apply_force_magnitude_to_object"
    /\ BallMotion[3].magnitude \in 1..3
    /\ BallMotion[4].type = "object_look_at_position"
    /\ BallMotion[4].position = _p1
    /\ BallMotion[5].type = "apply_force_magnitude_to_object"

C7_Witness ==
  /\ pc = "planned"
  /\ _p1 = Vec(0 - 240, 0, 740)
  /\ BallMotion[4].position = Vec(0 - 240, 0, 740)
  /\ BallMotion[3].magnitude = 3

\* C8: the launch impulse lies in [5.2 * mass, 8 * mass] for the mass in [1, 4]
\* given to the instantiate instruction: [10.4, 16.0] for mass 2 and
\* [20.8, 32.0] for mass 4.
C8_LaunchScaledByMass ==
  pc = "planned" =>
    LET mass   == BallMotion[1].mass
        launch == BallMotion[5].magnitude
    IN  /\ mass \in 10..40
        /\ 52 * mass <= launch
        /\ launch <= 80 * mass
        /\ mass = 20 => launch \in 1040..1600
        /\ mass = 40 => launch \in 2080..3200

C8_Witness ==
  /\ pc = "planned"
  /\ BallMotion[1].mass = 20
  /\ BallMotion[5].magnitude = 1600

\* C9: planning a trial is never reached with an empty catalog; no failure
\* surfaces in the middle of planning a trial.
C9_EmptyCatalogStopsAtStartup == ~(pc = "raised" /\ _skyboxes = {})

\* C10: start and target of a planned trial differ, and a frame that reports
\* the ball at its start position is not done.
C10_NotDoneAtStart ==
  Planned =>
    /\ _p0 # _p1
    /\ (InFrame /\ ReadingSet(resp) = {_p0}) => ~result

====
